---- MODULE Spec2Model ----
(***************************************************************************)
(* CTV tile generator (src/app.py): the Streamlit script, its generation   *)
(* pipeline generate_ctv_tile, the icon resolver fetch_app_icon, the two   *)
(* badge loaders, and the two regular-expression helpers.                  *)
(*                                                                         *)
(* Strings that the code inspects character by character (URLs) are        *)
(* sequences of one-character strings.  Python's None is the tuple         *)
(* <<"none">> and a returned string x is <<"some", x>>.                    *)
(***************************************************************************)
EXTENDS Integers, Sequences, FiniteSets, TLC

VARIABLES
    sess,       \* per browser session: the script run and its generate_ctv_tile call
    tempFile,   \* app_store_badge_temp.png in the working directory: its content
                \* and the session that truncated it last and is still
                \* writing it ("-" when that write is over)
    env,        \* what is installed beside the script: font, Pillow API, badge assets
    fnIn,       \* input of the pure helper under check (a character sequence)
    fnOut,      \* its result
    fnPc        \* "in" before the helper ran, "out" after

vars == <<sess, tempFile, env, fnIn, fnOut, fnPc>>

(***************************************************************************)
(* Program constants                                                       *)
(***************************************************************************)
TILE_WIDTH == 480
TILE_HEIGHT == 270
BADGE_WIDTH == 180
SUPERSAMPLE == 2
BADGE_TIMEOUT == 10
\* requests.get without a timeout argument waits without limit
NO_TIMEOUT == 0

(***************************************************************************)
(* Bounds of the model                                                     *)
(***************************************************************************)
MaxParams == 3
MaxIconUrlLen == 6

\* Streamlit runs each browser session's script in its own thread of one process
Sessions == {"s1", "s2"}

None == <<"none">>
Some(x) == <<"some", x>>

(***************************************************************************)
(* Character sequences                                                     *)
(***************************************************************************)
SeqsUpTo(A, n) == UNION {[1..k -> A] : k \in 0..n}

Slice(s, a, b) == [k \in 1..(b - a + 1) |-> s[a + k - 1]]

StartsAt(s, i, p) ==
    /\ i >= 1
    /\ i + Len(p) - 1 <= Len(s)
    /\ \A k \in 1..Len(p) : s[i + k - 1] = p[k]

\* end (inclusive) of the longest run from i of characters outside Stop
RECURSIVE RunEnd(_, _, _)
RunEnd(s, i, Stop) ==
    IF i > Len(s) \/ s[i] \in Stop THEN i - 1 ELSE RunEnd(s, i + 1, Stop)

\* \d in a Python 3 str pattern matches every Unicode decimal digit (category
\* Nd), not only 0-9; the others are stood for by two of them, written by
\* their code points (ARABIC-INDIC DIGIT THREE, FULLWIDTH DIGIT FIVE)
AsciiDigits == {"0", "1", "2", "3", "4", "5", "6", "7", "8", "9"}
OtherDecimalDigits == {"U+0663", "U+FF15"}
Digits == AsciiDigits \cup OtherDecimalDigits

RECURSIVE DigitRunEnd(_, _)
DigitRunEnd(s, i) ==
    IF i > Len(s) \/ s[i] \notin Digits THEN i - 1 ELSE DigitRunEnd(s, i + 1)

(***************************************************************************)
(* extract_app_id: re.search(r'id=([^&]+)', url), group 1 or None          *)
(***************************************************************************)
IdPattern == <<"i", "d", "=">>

\* the pattern matches at i: "id=" and then at least one character that is not "&"
IdMatchesAt(url, i) ==
    /\ StartsAt(url, i, IdPattern)
    /\ i + 3 <= Len(url)
    /\ url[i + 3] # "&"

extract_app_id(url) ==
    IF \E i \in 1..Len(url) : IdMatchesAt(url, i)
    THEN LET i == CHOOSE j \in 1..Len(url) :
                      IdMatchesAt(url, j) /\ \A k \in 1..(j - 1) : ~IdMatchesAt(url, k)
         IN Some(Slice(url, i + 3, RunEnd(url, i + 3, {"&"})))
    ELSE None

(***************************************************************************)
(* icon URL normalisation: re.sub(r'=s\d+', '=s512', icon_url)             *)
(***************************************************************************)
SizePrefix == <<"=", "s">>
SizeToken512 == <<"=", "s", "5", "1", "2">>

SizeTokenAt(s, i) ==
    /\ StartsAt(s, i, SizePrefix)
    /\ i + 2 <= Len(s)
    /\ s[i + 2] \in Digits

\* re.sub with count=1: only the leftmost token is rewritten
RECURSIVE SubSizeFrom_first_only(_, _, _)
SubSizeFrom_first_only(s, i, done) ==
    IF i > Len(s) THEN <<>>
    ELSE IF ~done /\ SizeTokenAt(s, i)
         THEN SizeToken512 \o SubSizeFrom_first_only(s, DigitRunEnd(s, i + 2) + 1, TRUE)
         ELSE <<s[i]>> \o SubSizeFrom_first_only(s, i + 1, done)

\* re.sub scans left to right, replacing every non-overlapping match
RECURSIVE SubSizeFrom(_, _)
SubSizeFrom(s, i) ==
    IF i > Len(s) THEN <<>>
    ELSE IF SizeTokenAt(s, i)
         THEN SizeToken512 \o SubSizeFrom(s, DigitRunEnd(s, i + 2) + 1)
         ELSE <<s[i]>> \o SubSizeFrom(s, i + 1)

normalize_icon_url_first_only(icon_url) == SubSizeFrom_first_only(icon_url, 1, FALSE)

normalize_icon_url(icon_url) == SubSizeFrom(icon_url, 1)

(***************************************************************************)
(* Environment: what the deployment puts beside the script                 *)
(***************************************************************************)
\* font: arialbd.ttf can be loaded by ImageFont.truetype
\* fontList: whether the ImageFont module has an attribute "list" at all
\*           (Pillow releases define none, so line 121 raises AttributeError
\*           there; "lists" stands for a build that offers one naming the
\*           loadable fonts)
\* svg: the App Store SVG asset is present and cairosvg converts it
\* gp: google_play_badge.png is missing, or present with this mode
Envs ==
    [font : BOOLEAN, fontList : {"no_attr", "lists"}, svg : BOOLEAN,
     gp : {"missing", "RGB", "RGBA"}]

ImageModes == {"RGB", "RGBA"}

\* modes Image.paste accepts as a mask out of ImageModes
MaskModes == {"RGBA"}

(***************************************************************************)
(* Inputs of the form                                                      *)
(***************************************************************************)
AppNames == {"", "Kalshi"}

Upper(name) == IF name = "Kalshi" THEN "KALSHI" ELSE name

UrlNone == <<>>
UrlNoId == <<"x">>
UrlWithId == <<"?", "i", "d", "=", "x">>
FormUrls == {UrlNone, UrlNoId, UrlWithId}

(***************************************************************************)
(* One session's script run                                                *)
(***************************************************************************)
NoBadge == [kind |-> "unset", mode |-> "-", width |-> 0, backing |-> "-"]
NoNet == [call |-> "none", timeout |-> NO_TIMEOUT]
NoTile == [kind |-> "none", size |-> <<0, 0>>, layers |-> {}]

\* line 143: the name field starts with the value "Kalshi"; line 144: the URL
\* field starts empty
DefaultAppName == "Kalshi"

FreshRun ==
    [pc |-> "idle", clicked |-> FALSE, calls |-> 0,
     app_name |-> DefaultAppName, url |-> UrlNone,
     canvas |-> <<0, 0>>, layers |-> {},
     app_icon |-> "unset", icon_fail |-> "none",
     display_name |-> "", font |-> "unset", cta_font |-> "unset",
     as_badge |-> NoBadge, as_local |-> "unset", as_remote |-> "unset",
     gp_badge |-> NoBadge, gp_local |-> "unset", gp_remote |-> "unset",
     net |-> NoNet, exc |-> "none", exc_at |-> "none",
     tile |-> NoTile, ui |-> {}]

Set(s, r) == sess' = [sess EXCEPT ![s] = r]

\* an exception leaves generate_ctv_tile: nothing in it or in the script catches it
Raise(r, what) == [r EXCEPT !.pc = "raised", !.exc = what, !.exc_at = r.pc, !.net = NoNet]

(***************************************************************************)
(* The Streamlit script, lines 141-167                                     *)
(***************************************************************************)
\* the handler without the emptiness test of line 151
generate_btn_handler_unvalidated(name, url) ==
    [FreshRun EXCEPT !.clicked = TRUE, !.app_name = name, !.url = url,
                     !.pc = "canvas", !.calls = 1, !.ui = {"spinner"}]

\* lines 150-155: an empty name is reported and the run ends; otherwise
\* generate_ctv_tile(app_name, play_store_url) is called
generate_btn_handler(name, url) ==
    IF name = ""
    THEN [FreshRun EXCEPT !.clicked = TRUE, !.app_name = name, !.url = url,
                          !.ui = {"validation_error"}]
    ELSE [FreshRun EXCEPT !.clicked = TRUE, !.app_name = name, !.url = url,
                          !.pc = "canvas", !.calls = 1, !.ui = {"spinner"}]

ClickGenerate(s) ==
    /\ sess[s].pc = "idle"
    /\ \E name \in AppNames, url \in FormUrls : Set(s, generate_btn_handler(name, url))
    /\ UNCHANGED <<tempFile, env, fnIn, fnOut, fnPc>>

\* an edit of a text field reruns the script with the fields' new values and
\* generate_btn False: nothing is shown
Rerun(s) ==
    /\ sess[s].pc = "idle"
    /\ \E name \in AppNames, url \in FormUrls :
         Set(s, [FreshRun EXCEPT !.app_name = name, !.url = url])
    /\ UNCHANGED <<tempFile, env, fnIn, fnOut, fnPc>>

\* lines 156-167: the returned tile is encoded, shown and offered for download
\* below the messages the run has put on the page;
\* the run ends and its local variables are gone
ShowTile(s) ==
    /\ sess[s].pc = "show"
    /\ Set(s, [FreshRun EXCEPT !.clicked = TRUE, !.calls = sess[s].calls,
                               !.app_name = sess[s].app_name, !.url = sess[s].url,
                               !.tile = sess[s].tile,
                               !.ui = (sess[s].ui \ {"spinner"})
                                          \cup {"image", "download", "success"}])
    /\ UNCHANGED <<tempFile, env, fnIn, fnOut, fnPc>>

\* an exception out of generate_ctv_tile ends the script run; Streamlit shows it
ScriptException(s) ==
    /\ sess[s].pc = "raised"
    /\ Set(s, [FreshRun EXCEPT !.clicked = TRUE, !.calls = sess[s].calls,
                               !.app_name = sess[s].app_name, !.url = sess[s].url,
                               !.exc = sess[s].exc, !.exc_at = sess[s].exc_at,
                               !.ui = (sess[s].ui \ {"spinner"}) \cup {"exception"}])
    /\ UNCHANGED <<tempFile, env, fnIn, fnOut, fnPc>>

(***************************************************************************)
(* generate_ctv_tile, lines 73-96: canvas and icon                         *)
(***************************************************************************)
CanvasSize == <<TILE_WIDTH * SUPERSAMPLE, TILE_HEIGHT * SUPERSAMPLE>>

\* lines 75-81: the canvas; fetch_app_icon is called only for a truthy URL
NewCanvas(s) ==
    /\ sess[s].pc = "canvas"
    /\ Set(s, IF sess[s].url # UrlNone
              THEN [sess[s] EXCEPT !.pc = "fetch_icon", !.canvas = CanvasSize,
                                   !.layers = {"background"}]
              ELSE [sess[s] EXCEPT !.pc = "draw_icon", !.canvas = CanvasSize,
                                   !.layers = {"background"}, !.app_icon = "None"])
    /\ UNCHANGED <<tempFile, env, fnIn, fnOut, fnPc>>

\* lines 31-33: any Exception inside fetch_app_icon is reported and None returned
fetch_icon_except(r, why) ==
    [r EXCEPT !.pc = "draw_icon", !.app_icon = "None", !.icon_fail = why,
              !.net = NoNet, !.ui = @ \cup {"fetch_error"}]

\* lines 21-25: no id in the URL returns None with a warning; otherwise the
\* listing page is requested, with no timeout
FetchAppIcon(s) ==
    /\ sess[s].pc = "fetch_icon"
    /\ Set(s, IF extract_app_id(sess[s].url) = None
              THEN [sess[s] EXCEPT !.pc = "draw_icon", !.app_icon = "None",
                                   !.icon_fail = "no_id", !.ui = @ \cup {"warning"}]
              ELSE [sess[s] EXCEPT !.pc = "wait_listing",
                                   !.net = [call |-> "listing", timeout |-> NO_TIMEOUT]])
    /\ UNCHANGED <<tempFile, env, fnIn, fnOut, fnPc>>

\* lines 26-29: the page arrived; without a CDN icon URL in it the function
\* falls off its end (None); with one the icon is requested, with no timeout
ListingResponse(s) ==
    /\ sess[s].pc = "wait_listing"
    /\ \E html \in {"with_icon_url", "without_icon_url"} :
         Set(s, IF html = "without_icon_url"
                THEN [sess[s] EXCEPT !.pc = "draw_icon", !.app_icon = "None",
                                     !.icon_fail = "no_icon_url", !.net = NoNet]
                ELSE [sess[s] EXCEPT !.pc = "wait_icon",
                                     !.net = [call |-> "icon", timeout |-> NO_TIMEOUT]])
    /\ UNCHANGED <<tempFile, env, fnIn, fnOut, fnPc>>

\* line 30: Image.open reads the header only.  Bytes that are no image raise
\* there (caught); an image whose pixel data is cut short opens, and fails
\* when it is first decoded
IconResponse(s) ==
    /\ sess[s].pc = "wait_icon"
    /\ \E bytes \in {"image", "not_an_image", "image_truncated"} :
         Set(s, IF bytes = "not_an_image"
                THEN fetch_icon_except(sess[s], "decode_error")
                ELSE [sess[s] EXCEPT !.pc = "draw_icon", !.app_icon = bytes,
                                     !.net = NoNet])
    /\ UNCHANGED <<tempFile, env, fnIn, fnOut, fnPc>>

\* lines 83-96: a resolved icon is resized (decoding it), masked and pasted;
\* without one the placeholder rounded rectangle is drawn
draw_icon(r) ==
    IF r.app_icon = "None"
    THEN [r EXCEPT !.pc = "label", !.layers = @ \cup {"placeholder"}]
    ELSE IF r.app_icon = "image_truncated"
         THEN Raise(r, "OSError")
         ELSE [r EXCEPT !.pc = "label", !.layers = @ \cup {"icon"}]

DrawIcon(s) ==
    /\ sess[s].pc = "draw_icon"
    /\ Set(s, draw_icon(sess[s]))
    /\ UNCHANGED <<tempFile, env, fnIn, fnOut, fnPc>>

\* lines 99-107: the label; a font that cannot be loaded is replaced by the default
DrawLabel(s) ==
    /\ sess[s].pc = "label"
    /\ Set(s, [sess[s] EXCEPT !.pc = "as_badge",
                              !.display_name = Upper(sess[s].app_name),
                              !.font = IF env.font THEN "arialbd" ELSE "default",
                              !.layers = @ \cup {"label"}])
    /\ UNCHANGED <<tempFile, env, fnIn, fnOut, fnPc>>

(***************************************************************************)
(* Badge loaders, lines 41-71                                              *)
(***************************************************************************)
BadgeRenderWidth == BADGE_WIDTH * SUPERSAMPLE

\* the temp PNG before any run, and as an earlier run of the process left it
NoTempFile == [content |-> "absent", writer |-> "-"]
LeftTempFile == [content |-> "complete", writer |-> "-"]

\* badge.resize((width * 2, ...)): the width is set, the mode is the source's
ResizedBadge(mode) ==
    [kind |-> "image", mode |-> mode, width |-> BadgeRenderWidth, backing |-> "memory"]

\* Image.open("app_store_badge_temp.png"): cairosvg wrote an RGBA PNG of the
\* requested width; the pixel data stays in the file until first use
OpenedTempBadge ==
    [kind |-> "image", mode |-> "RGBA", width |-> BadgeRenderWidth, backing |-> "tempfile"]

\* lines 44-48: cairosvg reads the SVG and starts writing the temp PNG (the
\* file is truncated); a missing or unreadable SVG raises into the except
\* clause, which requests Apple's badge with a 10 s timeout
LoadAppStoreBadge(s) ==
    /\ sess[s].pc = "as_badge"
    /\ IF env.svg
       THEN /\ tempFile' = [content |-> "partial", writer |-> s]
            /\ Set(s, [sess[s] EXCEPT !.pc = "as_write"])
       ELSE /\ tempFile' = tempFile
            /\ Set(s, [sess[s] EXCEPT !.pc = "wait_as", !.as_local = "failed",
                                      !.ui = @ \cup {"badge_error"},
                                      !.net = [call |-> "as_fallback",
                                               timeout |-> BADGE_TIMEOUT]])
    /\ UNCHANGED <<env, fnIn, fnOut, fnPc>>

\* this session's svg2png has written its last byte.  If it truncated the
\* file last, or whoever did has finished, every byte of the PNG is in place
\* (all writers write the same bytes).  If another session truncated the
\* file after this one and is still writing, this one's bytes lie beyond
\* what the other has written so far: whether the file is a whole PNG now
\* depends on how far the other has come (a race)
SvgWriteDone(s) ==
    /\ sess[s].pc = "as_write"
    /\ IF tempFile.writer \in {s, "-"}
       THEN tempFile' = [content |-> "complete", writer |-> "-"]
       ELSE \E c \in {"partial", "complete"} : tempFile' = [tempFile EXCEPT !.content = c]
    /\ Set(s, [sess[s] EXCEPT !.pc = "as_open"])
    /\ UNCHANGED <<env, fnIn, fnOut, fnPc>>

\* line 49: the temp file is opened, which reads its header only.  Of a file
\* another run has truncated and is rewriting, the header is there or not (a
\* race): without it Image.open raises into the except clause (lines 50-54),
\* with it the image opens and its data is read when it is pasted
OpenTempBadge(s) ==
    /\ sess[s].pc = "as_open"
    /\ \E header \in IF tempFile.content = "complete" THEN {TRUE} ELSE BOOLEAN :
         Set(s, IF header
                THEN [sess[s] EXCEPT !.pc = "gp_badge", !.as_local = "ok",
                                     !.as_badge = OpenedTempBadge]
                ELSE [sess[s] EXCEPT !.pc = "wait_as", !.as_local = "failed",
                                     !.ui = @ \cup {"badge_error"},
                                     !.net = [call |-> "as_fallback",
                                              timeout |-> BADGE_TIMEOUT]])
    /\ UNCHANGED <<tempFile, env, fnIn, fnOut, fnPc>>

\* lines 55-57: the fallback bytes are opened and resized; bytes that are no
\* image raise, inside the except clause, so out of the loader
AppStoreFallbackResponse(s) ==
    /\ sess[s].pc = "wait_as"
    /\ \E bytes \in ImageModes \cup {"not_an_image"} :
         Set(s, IF bytes = "not_an_image"
                THEN [Raise(sess[s], "UnidentifiedImageError") EXCEPT !.as_remote = "failed"]
                ELSE [sess[s] EXCEPT !.pc = "gp_badge", !.as_remote = "ok",
                                     !.as_badge = ResizedBadge(bytes), !.net = NoNet])
    /\ UNCHANGED <<tempFile, env, fnIn, fnOut, fnPc>>

\* lines 60-68: the local PNG is opened and resized; if that raises, the bare
\* except requests Google's badge with a 10 s timeout
LoadGooglePlayBadge(s) ==
    /\ sess[s].pc = "gp_badge"
    /\ Set(s, IF env.gp = "missing"
              THEN [sess[s] EXCEPT !.pc = "wait_gp", !.gp_local = "failed",
                                   !.net = [call |-> "gp_fallback",
                                            timeout |-> BADGE_TIMEOUT]]
              ELSE [sess[s] EXCEPT !.pc = "paste_as", !.gp_local = "ok",
                                   !.gp_badge = ResizedBadge(env.gp)])
    /\ UNCHANGED <<tempFile, env, fnIn, fnOut, fnPc>>

\* lines 69-71
GooglePlayFallbackResponse(s) ==
    /\ sess[s].pc = "wait_gp"
    /\ \E bytes \in ImageModes \cup {"not_an_image"} :
         Set(s, IF bytes = "not_an_image"
                THEN [Raise(sess[s], "UnidentifiedImageError") EXCEPT !.gp_remote = "failed"]
                ELSE [sess[s] EXCEPT !.pc = "paste_as", !.gp_remote = "ok",
                                     !.gp_badge = ResizedBadge(bytes), !.net = NoNet])
    /\ UNCHANGED <<tempFile, env, fnIn, fnOut, fnPc>>

(***************************************************************************)
(* Network failures                                                        *)
(***************************************************************************)
\* what the code does when requests.get raises (connection error or timeout):
\* inside fetch_app_icon's try it is caught; a badge fallback request sits in
\* an except clause with no handler around it, so the exception leaves the
\* loader and generate_ctv_tile
request_raised(r, what) ==
    IF r.net.call = "listing" THEN fetch_icon_except(r, "listing_error")
    ELSE IF r.net.call = "icon" THEN fetch_icon_except(r, "icon_error")
    ELSE IF r.net.call = "as_fallback"
         THEN [Raise(r, what) EXCEPT !.as_remote = "failed"]
         ELSE [Raise(r, what) EXCEPT !.gp_remote = "failed"]

\* the server refuses or the connection breaks
NetFail(s) ==
    /\ sess[s].net.call # "none"
    /\ Set(s, request_raised(sess[s], "ConnectionError"))
    /\ UNCHANGED <<tempFile, env, fnIn, fnOut, fnPc>>

\* the server stays silent: only a request made with a timeout is ended
NetTimeout(s) ==
    /\ sess[s].net.call # "none"
    /\ sess[s].net.timeout > 0
    /\ Set(s, request_raised(sess[s], "Timeout"))
    /\ UNCHANGED <<tempFile, env, fnIn, fnOut, fnPc>>

(***************************************************************************)
(* generate_ctv_tile, lines 113-129: badges, caption, downsampling         *)
(***************************************************************************)
\* canvas.paste(badge, pos, badge): the badge is its own mask, which needs an
\* alpha channel; a badge still backed by the temp file is decoded from it now
paste_badge(r, badge, layer, next, file) ==
    IF badge.kind # "image" THEN [r EXCEPT !.pc = next]
    ELSE IF badge.backing = "tempfile" /\ file # "complete"
         THEN Raise(r, "OSError")
         ELSE IF badge.mode \notin MaskModes
              THEN Raise(r, "ValueError")
              ELSE [r EXCEPT !.pc = next, !.layers = @ \cup {layer}]

PasteAppStoreBadge(s) ==
    /\ sess[s].pc = "paste_as"
    /\ Set(s, paste_badge(sess[s], sess[s].as_badge, "as_badge", "paste_gp", tempFile.content))
    /\ UNCHANGED <<tempFile, env, fnIn, fnOut, fnPc>>

PasteGooglePlayBadge(s) ==
    /\ sess[s].pc = "paste_gp"
    /\ Set(s, paste_badge(sess[s], sess[s].gp_badge, "gp_badge", "draw_cta", tempFile.content))
    /\ UNCHANGED <<tempFile, env, fnIn, fnOut, fnPc>>

\* line 121: ImageFont.list() is looked up first; where the module has no
\* such attribute that is an AttributeError.  Where it has, a listed font is
\* loaded and an unlisted one replaced by the default
DrawCTA(s) ==
    /\ sess[s].pc = "draw_cta"
    /\ Set(s, IF env.fontList = "no_attr"
              THEN Raise(sess[s], "AttributeError")
              ELSE [sess[s] EXCEPT !.pc = "downsample",
                                   !.cta_font = IF env.font THEN "arialbd" ELSE "default",
                                   !.layers = @ \cup {"cta"}])
    /\ UNCHANGED <<tempFile, env, fnIn, fnOut, fnPc>>

\* lines 128-129
Downsample(s) ==
    /\ sess[s].pc = "downsample"
    /\ Set(s, [sess[s] EXCEPT !.pc = "show",
                              !.tile = [kind |-> "tile",
                                        size |-> <<TILE_WIDTH, TILE_HEIGHT>>,
                                        layers |-> sess[s].layers]])
    /\ UNCHANGED <<tempFile, env, fnIn, fnOut, fnPc>>

(***************************************************************************)
(* Specifications                                                          *)
(***************************************************************************)
Step(s) ==
    \/ ClickGenerate(s)
    \/ Rerun(s)
    \/ NewCanvas(s)
    \/ FetchAppIcon(s)
    \/ ListingResponse(s)
    \/ IconResponse(s)
    \/ NetFail(s)
    \/ NetTimeout(s)
    \/ DrawIcon(s)
    \/ DrawLabel(s)
    \/ LoadAppStoreBadge(s)
    \/ SvgWriteDone(s)
    \/ OpenTempBadge(s)
    \/ AppStoreFallbackResponse(s)
    \/ LoadGooglePlayBadge(s)
    \/ GooglePlayFallbackResponse(s)
    \/ PasteAppStoreBadge(s)
    \/ PasteGooglePlayBadge(s)
    \/ DrawCTA(s)
    \/ Downsample(s)
    \/ ShowTile(s)
    \/ ScriptException(s)

Init ==
    /\ sess = [s \in Sessions |-> FreshRun]
    /\ tempFile \in {NoTempFile, LeftTempFile}
    /\ env \in Envs
    /\ fnIn = <<>>
    /\ fnOut = None
    /\ fnPc = "off"

Next == \E s \in Sessions : Step(s)

Spec == Init /\ [][Next]_vars

(***************************************************************************)
(* The helpers on their own: every input up to a length, then one call     *)
(***************************************************************************)
\* a listing URL is a host and path free of "id=" (left out), then "?" and
\* up to MaxParams parameters key=value joined by "&"
ParamKeys == {<<"i", "d">>, <<"x", "i", "d">>, <<"x">>}
ParamValues == {<<>>, <<"x">>, <<"d", "x">>}
Params == ParamKeys \X ParamValues

RECURSIVE JoinParams(_)
JoinParams(q) ==
    IF q = <<>> THEN <<>>
    ELSE q[1][1] \o <<"=">> \o q[1][2]
         \o (IF Len(q) > 1 THEN <<"&">> \o JoinParams(Tail(q)) ELSE <<>>)

ListingUrls == {<<"?">> \o JoinParams(q) : q \in SeqsUpTo(Params, MaxParams)}

IconUrlChars == {"=", "s", "1", "5", "U+0663", "x"}

ExtractAppId ==
    /\ fnPc = "in"
    /\ fnOut' = extract_app_id(fnIn)
    /\ fnPc' = "out"
    /\ UNCHANGED <<sess, tempFile, env, fnIn>>

InitExtract ==
    /\ sess = [s \in Sessions |-> FreshRun]
    /\ tempFile = NoTempFile
    /\ env = [font |-> TRUE, fontList |-> "no_attr", svg |-> TRUE, gp |-> "RGBA"]
    /\ fnIn \in ListingUrls
    /\ fnOut = None
    /\ fnPc = "in"

SpecExtract == InitExtract /\ [][ExtractAppId]_vars

NormalizeIconUrl ==
    /\ fnPc = "in"
    /\ fnOut' = normalize_icon_url(fnIn)
    /\ fnPc' = "out"
    /\ UNCHANGED <<sess, tempFile, env, fnIn>>

InitNormalize ==
    /\ sess = [s \in Sessions |-> FreshRun]
    /\ tempFile = NoTempFile
    /\ env = [font |-> TRUE, fontList |-> "no_attr", svg |-> TRUE, gp |-> "RGBA"]
    /\ fnIn \in SeqsUpTo(IconUrlChars, MaxIconUrlLen)
    /\ fnOut = <<>>
    /\ fnPc = "in"

SpecNormalize == InitNormalize /\ [][NormalizeIconUrl]_vars

(***************************************************************************)
(* Properties                                                              *)
(***************************************************************************)
AfterIconStep(r) == r.pc \notin {"idle", "canvas", "fetch_icon", "wait_listing", "wait_icon", "draw_icon"}

\* C1: for a non-empty app name and any storefront URL condition,
\* generate_ctv_tile never raises, and a tile it returns is 480x270.
C1_GenerateNeverRaises ==
    \A s \in Sessions :
        /\ sess[s].exc = "none"
        /\ sess[s].tile.kind = "tile" => sess[s].tile.size = <<TILE_WIDTH, TILE_HEIGHT>>

\* C2: when a badge's local asset fails and its remote fallback fails too,
\* the loader reports the badge unavailable instead of raising, and the
\* generation goes on without that layer.
C2_BadgeUnavailableIsNotAnError ==
    \A s \in Sessions :
        /\ (sess[s].as_local = "failed" /\ sess[s].as_remote = "failed")
              => (sess[s].exc = "none" /\ sess[s].as_badge.kind = "unavailable")
        /\ (sess[s].gp_local = "failed" /\ sess[s].gp_remote = "failed")
              => (sess[s].exc = "none" /\ sess[s].gp_badge.kind = "unavailable")

\* an icon failure: a failure point inside fetch_app_icon, or icon bytes
\* whose pixel data cannot be decoded
IconFailed(r) == r.icon_fail # "none" \/ r.app_icon = "image_truncated"

\* C3: no exception from resolving the icon reaches generate_ctv_tile; after
\* each failure point (no id, listing fetch error, no icon URL in the page,
\* icon fetch error, image decode error) fetch_app_icon has returned None, no
\* icon is pasted, and the icon step draws the placeholder.
C3_IconFailureGivesPlaceholder ==
    \A s \in Sessions :
        /\ sess[s].exc_at \notin {"fetch_icon", "wait_listing", "wait_icon", "draw_icon"}
        /\ IconFailed(sess[s]) =>
              /\ sess[s].app_icon = "None"
              /\ "icon" \notin sess[s].layers
              /\ AfterIconStep(sess[s]) => "placeholder" \in sess[s].layers

\* C4: a Generate click with an empty app name reports a validation error,
\* calls generate_ctv_tile not at all, and shows no tile and no download;
\* generate_ctv_tile is called exactly when the name is non-empty.
C4_EmptyNameIsRejected ==
    \A s \in Sessions :
        /\ ~sess[s].clicked => sess[s].calls = 0
        /\ sess[s].clicked =>
              /\ (sess[s].calls = 1) <=> (sess[s].app_name # "")
              /\ ("validation_error" \in sess[s].ui) <=> (sess[s].app_name = "")
              /\ sess[s].app_name = "" =>
                    /\ sess[s].pc = "idle"
                    /\ sess[s].tile.kind = "none"
                    /\ "download" \notin sess[s].ui
                    /\ "image" \notin sess[s].ui

C4_Witness ==
    \E s, t \in Sessions :
        /\ sess[s].clicked /\ sess[s].app_name = "" /\ "validation_error" \in sess[s].ui
        /\ sess[t].clicked /\ sess[t].app_name # "" /\ sess[t].calls = 1

\* C7: every network request in flight carries a timeout, so a silent
\* server cannot hold a generation for ever.
C7_EveryRequestHasTimeout ==
    \A s \in Sessions : sess[s].net.call # "none" => sess[s].net.timeout > 0

\* C8: generation calls do not interfere: what a call reads back from the
\* working directory is what that call itself wrote, whatever another call
\* does meanwhile.
C8_CallsDoNotInterfere ==
    \A s \in Sessions :
        /\ sess[s].pc = "as_open" => tempFile.content = "complete"
        /\ (sess[s].as_badge.backing = "tempfile" /\ sess[s].pc \in {"gp_badge", "wait_gp", "paste_as"})
              => tempFile.content = "complete"

\* C9: with arialbd.ttf unavailable, the label step and the caption step
\* both use the built-in default font and the caption step does not raise.
C9_MissingFontFallsBack ==
    \A s \in Sessions :
        ~env.font =>
            /\ sess[s].font \in {"unset", "default"}
            /\ sess[s].cta_font \in {"unset", "default"}
            /\ sess[s].exc_at # "draw_cta"
            /\ sess[s].pc \in {"downsample", "show"} => sess[s].cta_font = "default"

\* C10: a badge image a loader returned has the render width and a mode
\* with an alpha channel, so pasting it with itself as mask cannot fail.
C10_BadgeHasAlpha ==
    \A s \in Sessions :
        /\ sess[s].as_badge.kind = "image" =>
              (sess[s].as_badge.width = BadgeRenderWidth /\ sess[s].as_badge.mode \in MaskModes)
        /\ sess[s].gp_badge.kind = "image" =>
              (sess[s].gp_badge.width = BadgeRenderWidth /\ sess[s].gp_badge.mode \in MaskModes)
        /\ sess[s].exc # "ValueError"

(***************************************************************************)
(* Properties of the helpers                                               *)
(***************************************************************************)
FirstIndex(s, c) == CHOOSE i \in 1..Len(s) : s[i] = c /\ \A k \in 1..(i - 1) : s[k] # c

\* first index of the query string: after the first "?", or the whole text
QueryStart(url) == IF \E i \in 1..Len(url) : url[i] = "?" THEN FirstIndex(url, "?") + 1 ELSE 1

\* a..b is one "&"-separated parameter of the query string
IsParam(url, a, b) ==
    /\ QueryStart(url) <= a
    /\ a <= b
    /\ b <= Len(url)
    /\ a = QueryStart(url) \/ url[a - 1] = "&"
    /\ b = Len(url) \/ url[b + 1] = "&"
    /\ \A k \in a..b : url[k] # "&"

\* the values X of the parameters id=X, X not empty
IdValues(url) ==
    {Slice(url, a + 3, b) : <<a, b>> \in
        {p \in (1..Len(url)) \X (1..Len(url)) :
            IsParam(url, p[1], p[2]) /\ StartsAt(url, p[1], IdPattern) /\ p[1] + 3 <= p[2]}}

HasIdParam(url) ==
    \E a, b \in 1..Len(url) : IsParam(url, a, b) /\ StartsAt(url, a, IdPattern)

\* C5: a URL whose query string has a parameter id=X yields X, and a URL
\* with no id= parameter yields None.
C5_ExtractsIdParameter ==
    fnPc = "out" =>
        /\ IdValues(fnIn) # {} => fnOut \in {Some(x) : x \in IdValues(fnIn)}
        /\ ~HasIdParam(fnIn) => fnOut = None

\* the text with the digits of every size token taken out
RECURSIVE WithoutSizeDigits(_, _)
WithoutSizeDigits(s, i) ==
    IF i > Len(s) THEN <<>>
    ELSE IF SizeTokenAt(s, i)
         THEN SizePrefix \o WithoutSizeDigits(s, DigitRunEnd(s, i + 2) + 1)
         ELSE <<s[i]>> \o WithoutSizeDigits(s, i + 1)

SizeTokens(s) == {i \in 1..Len(s) : SizeTokenAt(s, i)}

\* C6: normalisation turns each size token =s<digits> into =s512 and
\* changes no other character.
C6_OnlySizeTokensRewritten ==
    fnPc = "out" =>
        /\ WithoutSizeDigits(fnOut, 1) = WithoutSizeDigits(fnIn, 1)
        /\ Cardinality(SizeTokens(fnOut)) = Cardinality(SizeTokens(fnIn))
        /\ \A i \in SizeTokens(fnOut) :
              Slice(fnOut, i, DigitRunEnd(fnOut, i + 2)) = SizeToken512

C6_Witness ==
    /\ fnPc = "out"
    /\ Cardinality(SizeTokens(fnIn)) = 1
    /\ fnIn # fnOut
    /\ Len(fnOut) > Len(fnIn)

====
